---- MODULE Spec2Model ----
(***************************************************************************)
(* Model of the KLUERP server: the course catalog with its embedded        *)
(* enrollment roster and faculty list (models/Course.js, routes/courses,   *)
(* routes/students, routes/faculty) and the login lockout of the User      *)
(* model (models/User.js).                                                  *)
(*                                                                         *)
(* Every route handler is one action: requests are handled one at a time.  *)
(* ObjectIds of the three collections are kept apart: a User id ("u1") is  *)
(* never equal to a Student id ("s1") or a Faculty id ("f1").               *)
(***************************************************************************)
EXTENDS Integers, Sequences, FiniteSets, TLC

VARIABLES courses, students, faculty, res, users, now, streak, profiles, pc

vars == <<courses, students, faculty, res, users, now, streak, profiles, pc>>

----------------------------------------------------------------------------
(* Bounds *)

MaxCapacity == 2
MaxFacultyList == 2
MaxTime == 6
MaxAttemptsSeen == 7

----------------------------------------------------------------------------
(* Identifier spaces *)

StudentIds == {"s1", "s2"}
FacultyIds == {"f1", "f2"}
CourseIds == {"c1", "c2"}
UserIds == {"u1", "u2", "uf", "ua"}

\* userSchema.role
Role(u) ==
  CASE u = "ua" -> "admin"
    [] u = "uf" -> "faculty"
    [] OTHER -> "student"

\* userSchema.profile: the domain profile an identity owns
Profile(u) ==
  CASE u = "u1" -> "s1"
    [] u = "u2" -> "s2"
    [] u = "uf" -> "f1"
    [] u = "u3" -> "s3"
    [] OTHER -> "none"

\* accounts of the login model
Usernames == {"u1", "ua"}

StudentUsers == {u \in UserIds : Role(u) = "student"}

\* every value that can be stored in enrolledStudents[i].student
Refs == StudentIds \cup StudentUsers

\* the student a roster reference stands for
StudentOf(ref) == IF ref \in StudentIds THEN ref ELSE Profile(ref)

\* grade literals submitted by callers
GradeInputs == {"A+", "A", " A", "W", "Z"}

\* the spec's canonical enumeration
SpecGrades == {"A+", "A", "B+", "B", "C+", "C", "D", "F", "I", "W"}

----------------------------------------------------------------------------
(* Course model helpers *)

\* courseSchema.enrolledStudents.grade enum
SchemaGrades == {"A+", "A", "B+", "B", "C+", "C", "D", "F", "I", "W"}

\* check('grade').isIn([...]) of PUT /:id/grade/:studentId
RouteGrades ==
  {"A+", " A", "A-", "B+", "B", "B-", "C+", "C", "C-", "D+", "D", "D-", "F"}

\* default grade of a new roster entry
DefaultGrade == "I"

NewEntry(ref) == [student |-> ref, grade |-> DefaultGrade]

\* courseSchema.methods.isFull, also inlined in POST /:id/enroll
isFull(course) == Len(course.enrolledStudents) >= course.capacity

hasEntry_mut(roster, ref) == FALSE

\* enrolledStudents.some(e => e.student equals ref)
hasEntry(roster, ref) == \E i \in 1..Len(roster) : roster[i].student = ref

\* enrolledStudents.findIndex(...): 1-based, 0 when absent (JS -1)
findIndex(roster, ref) ==
  IF hasEntry(roster, ref)
  THEN CHOOSE i \in 1..Len(roster) :
         /\ roster[i].student = ref
         /\ \A j \in 1..(i - 1) : roster[j].student # ref
  ELSE 0

\* Array.splice(index, 1), 1-based
splice(seq, i) == SubSeq(seq, 1, i - 1) \o SubSeq(seq, i + 1, Len(seq))

notFound_mut(index) == FALSE

\* index === -1
notFound(index) == index = 0

RECURSIVE removeFirst(_, _)
removeFirst(seq, x) ==
  IF seq = <<>> THEN <<>>
  ELSE IF Head(seq) = x THEN Tail(seq)
       ELSE <<Head(seq)>> \o removeFirst(Tail(seq), x)

pullFaculty_mut(list, f) == removeFirst(list, f)

\* $pull: { faculty: f } removes every occurrence of f
pullFaculty(list, f) == SelectSeq(list, LAMBDA x : x # f)

\* $pull: { enrolledStudents: { student: ref } }
pullStudent(roster, ref) == SelectSeq(roster, LAMBDA e : e.student # ref)

\* Mongoose array includes / indexOf on an ObjectId array
includes(seq, x) == \E i \in 1..Len(seq) : seq[i] = x

indexOf(seq, x) ==
  IF includes(seq, x)
  THEN CHOOSE i \in 1..Len(seq) : seq[i] = x /\ \A j \in 1..(i - 1) : seq[j] # x
  ELSE 0

\* The response of the last request, with the request it answers.
\*   arg    : the grade of assignGrade, the password outcome of authenticate
\*   n      : modifiedCount of the cascading updateMany of a delete; the
\*            loginAttempts an authenticate call found
\*   repeat : the request repeats the successful enroll request just before it
Resp(op, status, c, who, arg) ==
  [op |-> op, status |-> status, course |-> c, who |-> who, arg |-> arg,
   n |-> 0, repeat |-> FALSE]

\* the request (op, c, who) was answered "ok" by the previous response
isRepeat(op, c, who) ==
  /\ res.op = op
  /\ res.status = "ok"
  /\ res.course = c
  /\ res.who = who

----------------------------------------------------------------------------
(* Store after construction: course c1 exists with an empty roster; c2 is an
   id that resolves to no course *)

NoRes == Resp("none", "none", "-", "-", "-")

\* a new User document: loginAttempts default 0, lockUntil unset
NewUser == [loginAttempts |-> 0, lockUntil |-> {}]

NoUsers == [u \in Usernames |-> NewUser]

NoStreak == [u \in Usernames |-> 0]

\* every _id a Student or Faculty document can have
ProfileIds == StudentIds \cup FacultyIds \cup {"s3"}

\* the slot of an _id that resolves to no document
NoProfile == [user |-> "-", courses |-> <<>>, rev |-> 0]

\* studentSchema.user of the seeded Student documents: the owning identity
ownerOf(s) ==
  IF \E u \in UserIds \cup {"u3"} : Profile(u) = s
  THEN CHOOSE u \in UserIds \cup {"u3"} : Profile(u) = s
  ELSE "-"

\* the Student and Faculty documents after seeding: user is the owning
\* identity (Student only), courses is facultySchema.courses, rev stands for
\* the remaining profile fields
SeededProfiles ==
  [p \in ProfileIds |-> [user |-> ownerOf(p), courses |-> <<>>, rev |-> 0]]

\* no request is in flight and no client script is running
Idle == [at |-> "idle"]

Init ==
  /\ courses \in [{"c1"} -> [capacity : 1..MaxCapacity,
                            faculty : {<<>>},
                            enrolledStudents : {<<>>}]]
  /\ students = StudentIds
  /\ faculty = FacultyIds
  /\ res = NoRes
  /\ users = NoUsers
  /\ now = 0
  /\ streak = NoStreak
  /\ profiles = SeededProfiles
  /\ pc = Idle

withRoster(c, roster) ==
  [courses EXCEPT ![c] = [@ EXCEPT !.enrolledStudents = roster]]

withFaculty(c, list) ==
  [courses EXCEPT ![c] = [@ EXCEPT !.faculty = list]]

authVars == <<users, now, streak>>

----------------------------------------------------------------------------
(* routes/courses: POST /:id/enroll *)

selfEnrollStatus(u, c) ==
  IF Role(u) # "student" THEN "Forbidden"
  ELSE IF c \notin DOMAIN courses THEN "NotFound"
  ELSE IF isFull(courses[c]) THEN "CourseFull"
  ELSE IF hasEntry(courses[c].enrolledStudents, u) THEN "AlreadyEnrolled"
  ELSE "ok"

SelfEnroll(u, c) ==
  LET status == selfEnrollStatus(u, c) IN
  /\ courses' = IF status = "ok"
                THEN withRoster(c, Append(courses[c].enrolledStudents, NewEntry(u)))
                ELSE courses
  /\ res' = [Resp("selfEnroll", status, c, u, "-")
               EXCEPT !.repeat = isRepeat("selfEnroll", c, u)]
  /\ UNCHANGED <<students, faculty, authVars, profiles>>

(* routes/students: POST /:id/courses/:courseId *)

staffEnrollStatus(u, s, c) ==
  IF Role(u) # "admin" /\ Role(u) # "faculty" THEN "Forbidden"
  ELSE IF s \notin students THEN "NotFound"
  ELSE IF c \notin DOMAIN courses THEN "NotFound"
  ELSE IF hasEntry(courses[c].enrolledStudents, s) THEN "AlreadyEnrolled"
  ELSE "ok"

StaffEnroll(u, s, c) ==
  LET status == staffEnrollStatus(u, s, c) IN
  /\ courses' = IF status = "ok"
                THEN withRoster(c, Append(courses[c].enrolledStudents, NewEntry(s)))
                ELSE courses
  /\ res' = [Resp("staffEnroll", status, c, s, "-")
               EXCEPT !.repeat = status # "Forbidden" /\ isRepeat("staffEnroll", c, s)]
  /\ UNCHANGED <<students, faculty, authVars, profiles>>

(* models/Course: enrollStudent(studentId) *)

enrollStudentStatus(c, ref) ==
  IF isFull(courses[c]) THEN "CourseFull"
  ELSE IF hasEntry(courses[c].enrolledStudents, ref) THEN "AlreadyEnrolled"
  ELSE "ok"

enrollStudent(c, ref) ==
  LET status == enrollStudentStatus(c, ref) IN
  /\ c \in DOMAIN courses
  /\ courses' = IF status = "ok"
                THEN withRoster(c, Append(courses[c].enrolledStudents, NewEntry(ref)))
                ELSE courses
  /\ res' = [Resp("enrollStudent", status, c, ref, "-")
               EXCEPT !.repeat = isRepeat("enrollStudent", c, ref)]
  /\ UNCHANGED <<students, faculty, authVars, profiles>>

(* routes/students: DELETE /:id/courses/:courseId *)

unenrollStatus(u, s, c) ==
  IF Role(u) # "admin" /\ Role(u) # "faculty" THEN "Forbidden"
  ELSE IF s \notin students THEN "NotFound"
  ELSE IF c \notin DOMAIN courses THEN "NotFound"
  ELSE IF notFound(findIndex(courses[c].enrolledStudents, s)) THEN "NotEnrolled"
  ELSE "ok"

Unenroll(u, s, c) ==
  LET status == unenrollStatus(u, s, c) IN
  /\ courses' = IF status = "ok"
                THEN withRoster(c, splice(courses[c].enrolledStudents,
                                          findIndex(courses[c].enrolledStudents, s)))
                ELSE courses
  /\ res' = Resp("unenroll", status, c, s, "-")
  /\ UNCHANGED <<students, faculty, authVars, profiles>>

(* routes/courses: PUT /:id/grade/:studentId *)

assignGradeStatus(u, c, ref, g) ==
  IF g \notin RouteGrades THEN "InvalidGrade"
  ELSE IF c \notin DOMAIN courses THEN "NotFound"
  ELSE IF Role(u) # "faculty" /\ ~includes(courses[c].faculty, u) THEN "Forbidden"
  ELSE IF notFound(findIndex(courses[c].enrolledStudents, ref)) THEN "NotFound"
  ELSE IF g \notin SchemaGrades THEN "ServerError"
  ELSE "ok"

AssignGrade(u, c, ref, g) ==
  LET status == assignGradeStatus(u, c, ref, g)
      roster == courses[c].enrolledStudents
      i      == findIndex(roster, ref)
  IN
  /\ courses' = IF status = "ok"
                THEN withRoster(c, [roster EXCEPT ![i] = [@ EXCEPT !.grade = g]])
                ELSE courses
  /\ res' = Resp("assignGrade", status, c, ref, g)
  /\ UNCHANGED <<students, faculty, authVars, profiles>>

(* routes/students: DELETE /:id *)

deleteStudentStatus(u, s) ==
  IF Role(u) # "admin" THEN "Forbidden"
  ELSE IF s \notin students THEN "NotFound"
  ELSE "ok"

DeleteStudent(u, s) ==
  LET status == deleteStudentStatus(u, s) IN
  /\ courses' = IF status = "ok"
                THEN [c \in DOMAIN courses |->
                        [courses[c] EXCEPT !.enrolledStudents = pullStudent(@, s)]]
                ELSE courses
  /\ students' = IF status = "ok" THEN students \ {s} ELSE students
  /\ res' = Resp("deleteStudent", status, "-", s, "-")
  /\ profiles' = IF status = "ok" THEN [profiles EXCEPT ![s] = NoProfile]
                  ELSE profiles
  /\ UNCHANGED <<faculty, authVars>>

(* routes/courses: DELETE /:id, with courseSchema.pre('remove') *)

preRemove(course) == Len(course.enrolledStudents) > 0

deleteCourseStatus_mut(u, c) ==
  IF Role(u) # "admin" THEN "Forbidden"
  ELSE IF c \notin DOMAIN courses THEN "NotFound"
  ELSE "ok"

deleteCourseStatus(u, c) ==
  IF Role(u) # "admin" THEN "Forbidden"
  ELSE IF c \notin DOMAIN courses THEN "NotFound"
  ELSE IF Len(courses[c].enrolledStudents) > 0 THEN "HasEnrollments"
  ELSE IF preRemove(courses[c]) THEN "ServerError"
  ELSE "ok"

DeleteCourse(u, c) ==
  LET status == deleteCourseStatus(u, c) IN
  /\ courses' = IF status = "ok"
                THEN [d \in DOMAIN courses \ {c} |-> courses[d]]
                ELSE courses
  /\ res' = Resp("deleteCourse", status, c, "-", "-")
  /\ UNCHANGED <<students, faculty, authVars, profiles>>

\* GET /api/courses/:id
getCourse(c) == IF c \in DOMAIN courses THEN "ok" ELSE "NotFound"

----------------------------------------------------------------------------
(* Enrollment and grading workflow, one request at a time *)

Next ==
  \/ \E u \in UserIds, c \in CourseIds : SelfEnroll(u, c) /\ UNCHANGED pc
  \/ \E u \in UserIds, s \in StudentIds, c \in CourseIds : StaffEnroll(u, s, c) /\ UNCHANGED pc
  \/ \E c \in CourseIds, s \in StudentIds : enrollStudent(c, s) /\ UNCHANGED pc
  \/ \E u \in UserIds, s \in StudentIds, c \in CourseIds : Unenroll(u, s, c) /\ UNCHANGED pc
  \/ \E u \in UserIds, c \in CourseIds, ref \in Refs, g \in GradeInputs :
       AssignGrade(u, c, ref, g) /\ UNCHANGED pc
  \/ \E u \in UserIds, s \in StudentIds : DeleteStudent(u, s) /\ UNCHANGED pc
  \/ \E u \in UserIds, c \in CourseIds : DeleteCourse(u, c) /\ UNCHANGED pc

Spec == Init /\ [][Next]_vars

----------------------------------------------------------------------------
(* Faculty assignment: course create/update and the faculty routes *)

\* the faculty arrays a request body can carry
BodyFacultyLists == UNION {[1..n -> FacultyIds] : n \in 0..MaxFacultyList}

NoCourses == [c \in {} |-> 0]

InitFaculty ==
  /\ courses = NoCourses
  /\ students = StudentIds
  /\ faculty = FacultyIds
  /\ res = NoRes
  /\ users = NoUsers
  /\ now = 0
  /\ streak = NoStreak
  /\ profiles = SeededProfiles
  /\ pc = Idle

(* routes/courses: POST / ; the new document gets a fresh id *)

createCourseStatus(u) ==
  IF Role(u) # "admin" /\ Role(u) # "faculty" THEN "Forbidden" ELSE "ok"

CreateCourse(u, c, cap, list) ==
  LET status == createCourseStatus(u) IN
  /\ c \notin DOMAIN courses
  /\ courses' = IF status = "ok"
                THEN [d \in DOMAIN courses \cup {c} |->
                        IF d = c
                        THEN [capacity |-> cap, faculty |-> list,
                              enrolledStudents |-> <<>>]
                        ELSE courses[d]]
                ELSE courses
  /\ res' = Resp("createCourse", status, c, "-", "-")
  /\ UNCHANGED <<students, faculty, authVars, profiles>>

(* routes/courses: PUT /:id with $set: req.body *)

updateCourseStatus(u, c) ==
  IF c \notin DOMAIN courses THEN "NotFound"
  ELSE IF Role(u) # "admin" /\ ~includes(courses[c].faculty, u) THEN "Forbidden"
  ELSE "ok"

updatedCourses_mut(status, c, list) ==
  IF status # "NotFound" THEN withFaculty(c, list) ELSE courses

\* Course.findByIdAndUpdate runs only after the permission check has passed
updatedCourses(status, c, list) ==
  IF status = "ok" THEN withFaculty(c, list) ELSE courses

UpdateCourse(u, c, list) ==
  LET status == updateCourseStatus(u, c) IN
  /\ courses' = updatedCourses(status, c, list)
  /\ res' = Resp("updateCourse", status, c, "-", "-")
  /\ UNCHANGED <<students, faculty, authVars, profiles>>

(* routes/faculty: POST /:id/courses/:courseId *)

assignFacultyStatus(u, f, c) ==
  IF Role(u) # "admin" THEN "Forbidden"
  ELSE IF f \notin faculty THEN "NotFound"
  ELSE IF c \notin DOMAIN courses THEN "NotFound"
  ELSE IF includes(courses[c].faculty, f) THEN "AlreadyAssigned"
  ELSE "ok"

AssignFaculty(u, f, c) ==
  LET status == assignFacultyStatus(u, f, c) IN
  /\ courses' = IF status = "ok"
                THEN withFaculty(c, Append(courses[c].faculty, f))
                ELSE courses
  /\ res' = Resp("assignFaculty", status, c, f, "-")
  /\ UNCHANGED <<students, faculty, authVars, profiles>>

(* routes/faculty: DELETE /:id/courses/:courseId *)

removeFacultyStatus(u, f, c) ==
  IF Role(u) # "admin" THEN "Forbidden"
  ELSE IF f \notin faculty THEN "NotFound"
  ELSE IF c \notin DOMAIN courses THEN "NotFound"
  ELSE IF notFound(indexOf(courses[c].faculty, f)) THEN "NotAssigned"
  ELSE "ok"

RemoveFaculty(u, f, c) ==
  LET status == removeFacultyStatus(u, f, c) IN
  /\ courses' = IF status = "ok"
                THEN withFaculty(c, splice(courses[c].faculty,
                                           indexOf(courses[c].faculty, f)))
                ELSE courses
  /\ res' = Resp("removeFaculty", status, c, f, "-")
  /\ UNCHANGED <<students, faculty, authVars, profiles>>

(* routes/faculty: DELETE /:id *)

deleteFacultyStatus(u, f) ==
  IF Role(u) # "admin" THEN "Forbidden"
  ELSE IF f \notin faculty THEN "NotFound"
  ELSE "ok"

\* the courses matched by the filter { faculty: f } of updateMany
coursesOfFaculty(f) == {c \in DOMAIN courses : includes(courses[c].faculty, f)}

DeleteFaculty(u, f) ==
  LET status == deleteFacultyStatus(u, f) IN
  /\ courses' = IF status = "ok"
                THEN [c \in DOMAIN courses |->
                        IF c \in coursesOfFaculty(f)
                        THEN [courses[c] EXCEPT !.faculty = pullFaculty(@, f)]
                        ELSE courses[c]]
                ELSE courses
  /\ faculty' = IF status = "ok" THEN faculty \ {f} ELSE faculty
  /\ res' = [Resp("deleteFaculty", status, "-", f, "-")
               EXCEPT !.n = IF status = "ok"
                            THEN Cardinality(coursesOfFaculty(f)) ELSE 0]
  /\ profiles' = IF status = "ok" THEN [profiles EXCEPT ![f] = NoProfile]
                  ELSE profiles
  /\ UNCHANGED <<students, authVars>>

NextFaculty ==
  \/ \E u \in UserIds, c \in CourseIds, cap \in 1..MaxCapacity,
        list \in BodyFacultyLists : CreateCourse(u, c, cap, list) /\ UNCHANGED pc
  \/ \E u \in UserIds, c \in CourseIds, list \in BodyFacultyLists :
       UpdateCourse(u, c, list) /\ UNCHANGED pc
  \/ \E u \in UserIds, f \in FacultyIds, c \in CourseIds : AssignFaculty(u, f, c) /\ UNCHANGED pc
  \/ \E u \in UserIds, f \in FacultyIds, c \in CourseIds : RemoveFaculty(u, f, c) /\ UNCHANGED pc
  \/ \E u \in UserIds, f \in FacultyIds : DeleteFaculty(u, f) /\ UNCHANGED pc

SpecFaculty == InitFaculty /\ [][NextFaculty]_vars

----------------------------------------------------------------------------
(* Login lockout of the User model.  The clock counts half hours. *)

\* loginAttempts + 1 >= 5
MaxLoginAttempts == 5

\* Date.now() + 3600000, in half hours
LockDuration == 2

storeVars == <<courses, students, faculty, profiles>>

InitAuth ==
  /\ courses = NoCourses
  /\ students = StudentIds
  /\ faculty = FacultyIds
  /\ res = NoRes
  /\ users = NoUsers
  /\ now = 0
  /\ streak = NoStreak
  /\ profiles = SeededProfiles
  /\ pc = Idle

isLocked_mut(user) == \E t \in user.lockUntil : t < now

\* user.lockUntil && user.lockUntil > Date.now()
isLocked(user) == \E t \in user.lockUntil : t > now

\* this.lockUntil && this.lockUntil < Date.now()
lockExpired(user) == \E t \in user.lockUntil : t < now

lockDue_mut(user) == user.loginAttempts >= MaxLoginAttempts /\ user.lockUntil = {}

\* this.loginAttempts + 1 >= 5 && !this.lockUntil
lockDue(user) == user.loginAttempts + 1 >= MaxLoginAttempts /\ user.lockUntil = {}

\* userSchema.methods.incrementLoginAttempts: the document after updateOne
incrementLoginAttempts(user) ==
  IF lockExpired(user)
  THEN [loginAttempts |-> 1, lockUntil |-> {}]
  ELSE [loginAttempts |-> user.loginAttempts + 1,
        lockUntil |-> IF lockDue(user) THEN {now + LockDuration}
                      ELSE user.lockUntil]

resetLoginAttempts_mut(user) == [loginAttempts |-> 0, lockUntil |-> user.lockUntil]

\* the document after the reset update of a successful login
resetLoginAttempts(user) == [loginAttempts |-> 0, lockUntil |-> {}]

findByCredentialsStatus(name, match) ==
  IF name \notin DOMAIN users THEN "InvalidCredentials"
  ELSE IF isLocked(users[name]) THEN "AccountLocked"
  ELSE IF ~match THEN "InvalidCredentials"
  ELSE "ok"

\* userSchema.statics.findByCredentials; match is the outcome of
\* comparePassword for the submitted password
findByCredentials(name, match) ==
  LET status == findByCredentialsStatus(name, match) IN
  /\ name \in DOMAIN users => users[name].loginAttempts < MaxAttemptsSeen
  /\ users' = IF name \notin DOMAIN users \/ status = "AccountLocked" THEN users
              ELSE IF status = "ok"
              THEN [users EXCEPT ![name] = resetLoginAttempts(@)]
              ELSE [users EXCEPT ![name] = incrementLoginAttempts(@)]
  /\ streak' = IF name \notin DOMAIN users THEN streak
               ELSE IF status = "ok" THEN [streak EXCEPT ![name] = 0]
               ELSE IF match THEN streak
               ELSE [streak EXCEPT ![name] =
                       IF @ > MaxLoginAttempts THEN @ ELSE @ + 1]
  /\ res' = [Resp("authenticate", status, "-", name,
                  IF match THEN "correct" ELSE "wrong")
               EXCEPT !.n = IF name \in DOMAIN users
                            THEN users[name].loginAttempts ELSE 0]
  /\ UNCHANGED <<storeVars, now>>

\* Date.now() advances
Tick ==
  /\ now < MaxTime
  /\ now' = now + 1
  /\ UNCHANGED <<storeVars, res, users, streak>>

NextAuth ==
  \/ \E name \in Usernames \cup {"nobody"}, match \in BOOLEAN :
       findByCredentials(name, match) /\ UNCHANGED pc
  \/ Tick /\ UNCHANGED pc

SpecAuth == InitAuth /\ [][NextAuth]_vars

----------------------------------------------------------------------------
(* Claims about the roster, checked under Spec *)

Staff == {u \in UserIds : Role(u) \in {"admin", "faculty"}}

Admins == {u \in UserIds : Role(u) = "admin"}

rosterOf(c) == courses[c].enrolledStudents

\* C1: after any sequence of enroll and unenroll calls the roster of every
\* course is no longer than the course's capacity (the capacity never changes
\* under Spec).
C1_RosterWithinCapacity ==
  \A c \in DOMAIN courses : Len(rosterOf(c)) <= courses[c].capacity

\* C2: no roster holds two entries that stand for the same student, also when
\* one entry was written by the self-service path (the caller's User id) and
\* the other by the staff path (the Student id).
C2_OneEntryPerStudent ==
  \A c \in DOMAIN courses :
    \A i, j \in 1..Len(rosterOf(c)) :
      i # j => StudentOf(rosterOf(c)[i].student) # StudentOf(rosterOf(c)[j].student)

\* C4 (as stated): an enroll request that repeats the successful enroll request
\* just before it fails with AlreadyEnrolled and leaves every roster as it was.
C4_SecondEnrollAlreadyEnrolled ==
  [][res'.repeat => (res'.status = "AlreadyEnrolled" /\ courses' = courses)]_vars

\* C4 (amended): the repeated enroll request fails and leaves every roster as
\* it was; it fails with AlreadyEnrolled on the staff path, and on the
\* self-service path and in Course.enrollStudent with AlreadyEnrolled when a
\* seat is still free and with CourseFull when the first request took the
\* last seat.
C4_SecondEnrollFails ==
  [][res'.repeat =>
       /\ courses' = courses
       /\ res'.status =
            IF res'.op # "staffEnroll" /\ isFull(courses[res'.course])
            THEN "CourseFull" ELSE "AlreadyEnrolled"]_vars

\* the repeated self-service request was answered CourseFull
C4_Witness ==
  /\ res.repeat
  /\ res.op = "selfEnroll"
  /\ res.status = "CourseFull"
  /\ hasEntry(rosterOf(res.course), res.who)

\* C5: unenroll of an existing student from an existing course whose roster
\* has no entry for the student fails with NotEnrolled and changes no roster.
C5_UnenrollNotEnrolled ==
  [][( /\ res'.op = "unenroll"
       /\ res'.status # "Forbidden"
       /\ res'.who \in students
       /\ res'.course \in DOMAIN courses
       /\ ~hasEntry(rosterOf(res'.course), res'.who) )
     => (res'.status = "NotEnrolled" /\ courses' = courses)]_vars

\* an unenroll was answered NotEnrolled while the roster held other entries
C5_Witness ==
  /\ res.op = "unenroll"
  /\ res.status = "NotEnrolled"
  /\ res.who \in students
  /\ res.course \in DOMAIN courses
  /\ Len(rosterOf(res.course)) > 0
  /\ ~hasEntry(rosterOf(res.course), res.who)

\* C6: assignGrade for an enrolled student succeeds for every grade of the
\* enumeration {A+,A,B+,B,C+,C,D,F,I,W}, fails with InvalidGrade for every
\* other literal, and a failure leaves the stored grade as it was.
C6_GradeEnumeration ==
  [][\A u \in UserIds, c \in CourseIds, ref \in Refs, g \in GradeInputs :
       ( /\ AssignGrade(u, c, ref, g)
         /\ Role(u) = "faculty"
         /\ c \in DOMAIN courses
         /\ hasEntry(rosterOf(c), ref) )
       => IF g \in SpecGrades
          THEN res'.status = "ok"
          ELSE res'.status = "InvalidGrade" /\ courses' = courses]_vars

\* C7: deleteCourse of a course with a non-empty roster fails with
\* HasEnrollments and the course stays stored as it was; deleteCourse of a
\* course with an empty roster succeeds and the course id then resolves to
\* NotFound.
C7_DeleteCourse ==
  [][\A c \in CourseIds :
       ( /\ res'.op = "deleteCourse"
         /\ res'.status # "Forbidden"
         /\ res'.course = c
         /\ c \in DOMAIN courses )
       => IF Len(rosterOf(c)) > 0
          THEN res'.status = "HasEnrollments" /\ courses' = courses
          ELSE res'.status = "ok" /\ getCourse(c)' = "NotFound"]_vars

\* a deleteCourse was refused because of the roster, and the course is stored
C7_Witness ==
  /\ res.op = "deleteCourse"
  /\ res.status = "HasEnrollments"
  /\ getCourse(res.course) = "ok"
  /\ Len(rosterOf(res.course)) > 0

----------------------------------------------------------------------------
(* Claims about the faculty list, checked under SpecFaculty *)

facultyOf(c) == courses[c].faculty

\* C3: in every course every faculty reference occurs at most once in the
\* faculty list, after any sequence of course creation, course update,
\* assignFaculty, removeFaculty and deleteFaculty.
C3_FacultyListedOnce ==
  \A c \in DOMAIN courses :
    \A i, j \in 1..Len(facultyOf(c)) : i # j => facultyOf(c)[i] # facultyOf(c)[j]

\* C8: right after a successful deleteFaculty(f) no course's faculty list
\* contains f, however many courses listed f before.
C8_NoDanglingFaculty ==
  (res.op = "deleteFaculty" /\ res.status = "ok")
  => \A c \in DOMAIN courses : ~includes(facultyOf(c), res.who)

\* a faculty member listed by two courses was deleted
C8_Witness ==
  /\ res.op = "deleteFaculty"
  /\ res.status = "ok"
  /\ res.n = 2
  /\ res.who \notin faculty
  /\ \A c \in DOMAIN courses : ~includes(facultyOf(c), res.who)

----------------------------------------------------------------------------
(* Claims about the lockout, checked under SpecAuth.  streak[u] counts the
   wrong-password calls made for u since its last successful login (or since
   the account was created); it stops counting past MaxLoginAttempts + 1. *)

\* C9: starting from counter 0 and no lock, the account is unlocked after k
\* consecutive wrong-password calls for every k <= 4, and the 5th call sets
\* the lock to expire exactly one hour after that call.
C9_LockAtFifthFailure ==
  [][\A u \in Usernames :
       /\ streak'[u] <= 4 => users'[u].lockUntil = {}
       /\ (streak[u] = 4 /\ streak'[u] = 5)
            => users'[u].lockUntil = {now + LockDuration}]_vars

\* the fifth wrong password in a row has locked the account
C9_Witness ==
  /\ streak["u1"] = 5
  /\ users["u1"].loginAttempts = 5
  /\ users["u1"].lockUntil # {}

\* C10: while lockUntil is in the future every authenticate call for the
\* account fails with AccountLocked, with a correct or a wrong password.
C10_LockedRejectsAll ==
  [][\A u \in Usernames, match \in BOOLEAN :
       ( /\ findByCredentials(u, match)
         /\ \E t \in users[u].lockUntil : t > now )
       => (res'.status = "AccountLocked" /\ users' = users)]_vars

\* the correct password was refused during the lock window, time having
\* passed since the lock was set
C10_Witness ==
  /\ res.op = "authenticate"
  /\ res.status = "AccountLocked"
  /\ res.arg = "correct"
  /\ res.who \in Usernames
  /\ \E t \in users[res.who].lockUntil : t > now /\ t < now + LockDuration

\* C11: an authenticate call with the correct password for an account whose
\* lock is not in the future (expired, or never set) succeeds, and every
\* successful authenticate leaves the failure counter 0 and the lock cleared.
C11_SuccessResets ==
  [][\A u \in Usernames :
       /\ ( /\ findByCredentials(u, TRUE)
            /\ ~(\E t \in users[u].lockUntil : t > now) )
          => res'.status = "ok"
       /\ (\E match \in BOOLEAN : findByCredentials(u, match) /\ res'.status = "ok")
          => (users'[u].loginAttempts = 0 /\ users'[u].lockUntil = {})]_vars

\* a correct password was accepted for an account that had been locked (its
\* counter had reached 5), and the counter and the lock are reset
C11_Witness ==
  /\ res.op = "authenticate"
  /\ res.status = "ok"
  /\ res.n >= MaxLoginAttempts
  /\ users[res.who].loginAttempts = 0
  /\ users[res.who].lockUntil = {}

----------------------------------------------------------------------------
(* Further claims about the roster workflow, checked under Spec *)

\* the rule of the access-control policy for assignGrade: an admin, or a
\* caller whose Faculty profile is in the course's faculty list
policyMayGrade(u, c) ==
  Role(u) = "admin" \/ includes(courses[c].faculty, Profile(u))

\* C14: assignGrade (for an existing course and a grade the route accepts) is
\* denied with Forbidden exactly when the caller is neither an admin nor a
\* faculty member of the course.
C14_GradeAuthorization ==
  [][\A u \in UserIds, c \in CourseIds, ref \in Refs, g \in GradeInputs :
       ( /\ AssignGrade(u, c, ref, g)
         /\ g \in RouteGrades
         /\ c \in DOMAIN courses )
       => (res'.status = "Forbidden" <=> ~policyMayGrade(u, c))]_vars

\* C17: an enroll request (self-service or staff) for a course that does not
\* exist, or for a student reference with no Student profile, fails with
\* NotFound and adds no roster entry.
C17_EnrollNotFound ==
  [][( /\ res'.op \in {"selfEnroll", "staffEnroll"}
       /\ res'.status # "Forbidden"
       /\ \/ res'.course \notin DOMAIN courses
          \/ StudentOf(res'.who) \notin students )
     => (res'.status = "NotFound" /\ courses' = courses)]_vars

----------------------------------------------------------------------------
(* Client scripts against course c1: the round trip enroll, assignGrade,
   unenroll, enroll of one student, and the example enroll(A), enroll(B),
   enroll(C), unenroll(A), enroll(C) with A = s1, B = s2, C = s3.  Each call
   goes through a route: enroll through the self-service route (by the
   student's own identity) or the staff route (by the admin), unenroll
   through the staff route, assignGrade through the grade route by a
   faculty caller.  pc is the script and the number of calls made. *)

ScriptStudents == {"s1", "s2", "s3"}

ScriptStart(name, who) == [at |-> name, step |-> 0, who |-> who]

InitScript ==
  /\ \/ /\ pc \in {ScriptStart("roundtrip", s) : s \in StudentIds}
        /\ courses \in [{"c1"} -> [capacity : 1..MaxCapacity,
                                    faculty : {<<>>},
                                    enrolledStudents : {<<>>}]]
     \/ /\ pc = ScriptStart("example", "-")
        /\ courses \in [{"c1"} -> [capacity : {2},
                                    faculty : {<<>>},
                                    enrolledStudents : {<<>>}]]
  /\ students = ScriptStudents
  /\ faculty = FacultyIds
  /\ res = NoRes
  /\ users = NoUsers
  /\ now = 0
  /\ streak = NoStreak
  /\ profiles = SeededProfiles

enrollCall(s) ==
  \/ SelfEnroll(ownerOf(s), "c1")
  \/ StaffEnroll("ua", s, "c1")

unenrollCall(s) == Unenroll("ua", s, "c1")

gradeCall(s) ==
  \E ref \in {s, ownerOf(s)}, g \in GradeInputs \cap SpecGrades :
    AssignGrade("uf", "c1", ref, g)

advance == pc' = [pc EXCEPT !.step = @ + 1]

RoundTripEnroll ==
  /\ pc.at = "roundtrip" /\ pc.step \in {0, 3}
  /\ enrollCall(pc.who)
  /\ advance

RoundTripGrade ==
  /\ pc.at = "roundtrip" /\ pc.step = 1
  /\ gradeCall(pc.who)
  /\ advance

\* the grade call is optional: unenroll is the 2nd or the 3rd call
RoundTripUnenroll ==
  /\ pc.at = "roundtrip" /\ pc.step \in {1, 2}
  /\ unenrollCall(pc.who)
  /\ pc' = [pc EXCEPT !.step = 3]

ExampleCalls ==
  << [op |-> "enroll", who |-> "s1"], [op |-> "enroll", who |-> "s2"],
     [op |-> "enroll", who |-> "s3"], [op |-> "unenroll", who |-> "s1"],
     [op |-> "enroll", who |-> "s3"] >>

ExampleEnroll ==
  /\ pc.at = "example" /\ pc.step < Len(ExampleCalls)
  /\ ExampleCalls[pc.step + 1].op = "enroll"
  /\ enrollCall(ExampleCalls[pc.step + 1].who)
  /\ advance

ExampleUnenroll ==
  /\ pc.at = "example" /\ pc.step < Len(ExampleCalls)
  /\ ExampleCalls[pc.step + 1].op = "unenroll"
  /\ unenrollCall(ExampleCalls[pc.step + 1].who)
  /\ advance

NextScript ==
  \/ RoundTripEnroll
  \/ RoundTripGrade
  \/ RoundTripUnenroll
  \/ ExampleEnroll
  \/ ExampleUnenroll

SpecScript == InitScript /\ [][NextScript]_vars

\* the students of a roster, in roster order
rosterStudents(roster) == [i \in 1..Len(roster) |-> StudentOf(roster[i].student)]

\* C12: after enroll, (optionally assignGrade with a valid grade), unenroll,
\* enroll of one student the roster holds a single entry for that student, and
\* its grade is "I".
C12_RoundTripResetsGrade ==
  (pc.at = "roundtrip" /\ pc.step = 4)
  => /\ Cardinality({i \in 1..Len(rosterOf("c1")) :
                       StudentOf(rosterOf("c1")[i].student) = pc.who}) = 1
     /\ \A i \in 1..Len(rosterOf("c1")) :
          StudentOf(rosterOf("c1")[i].student) = pc.who
          => rosterOf("c1")[i].grade = "I"

\* the rosters of the example after 0..5 calls
ExampleRosters ==
  << <<>>, <<"s1">>, <<"s1", "s2">>, <<"s1", "s2">>, <<"s2">>, <<"s2", "s3">> >>

\* C13: a successful unenroll removes exactly the entry of the named student
\* and keeps the other entries in order, a successful enroll appends at the
\* end, and the example yields the rosters [A], [A,B], CourseFull with [A,B],
\* [B], [B,C].
C13_ExampleScenario ==
  [][/\ (res'.op = "unenroll" /\ res'.status = "ok")
          => /\ rosterOf("c1")' = pullStudent(rosterOf("c1"), res'.who)
             /\ Len(rosterOf("c1")') = Len(rosterOf("c1")) - 1
     /\ (res'.op \in {"selfEnroll", "staffEnroll"} /\ res'.status = "ok")
          => rosterOf("c1")' = Append(rosterOf("c1"), NewEntry(res'.who))
     /\ pc'.at = "example"
          => /\ rosterStudents(rosterOf("c1"))' = ExampleRosters[pc'.step + 1]
             /\ pc'.step = 3 => res'.status = "CourseFull"]_vars

----------------------------------------------------------------------------
(* Student and Faculty profiles: create, update and the Student reads *)

(* routes/students: POST / ; the new document gets a fresh id and the
   creator's identity as its user *)

createStudentStatus(u) ==
  IF Role(u) # "admin" THEN "Forbidden" ELSE "ok"

CreateStudent(u, s) ==
  LET status == createStudentStatus(u) IN
  /\ s \notin students
  /\ students' = IF status = "ok" THEN students \cup {s} ELSE students
  /\ profiles' = IF status = "ok"
                  THEN [profiles EXCEPT ![s] = [user |-> u, courses |-> <<>>,
                                                rev |-> 0]]
                  ELSE profiles
  /\ res' = Resp("createStudent", status, "-", s, "-")
  /\ UNCHANGED <<courses, faculty, authVars>>

(* routes/students: PUT /:id *)

updateStudentStatus(u, s) ==
  IF s \notin students THEN "NotFound"
  ELSE IF Role(u) # "admin" /\ u # profiles[s].user THEN "Forbidden"
  ELSE "ok"

UpdateStudent(u, s, v) ==
  LET status == updateStudentStatus(u, s) IN
  /\ profiles' = IF status = "ok" THEN [profiles EXCEPT ![s].rev = v]
                  ELSE profiles
  /\ res' = Resp("updateStudent", status, "-", s, "-")
  /\ UNCHANGED <<courses, students, faculty, authVars>>

(* routes/faculty: POST / *)

createFacultyStatus(u) ==
  IF Role(u) # "admin" THEN "Forbidden" ELSE "ok"

CreateFaculty(u, f, list) ==
  LET status == createFacultyStatus(u) IN
  /\ f \notin faculty
  /\ faculty' = IF status = "ok" THEN faculty \cup {f} ELSE faculty
  /\ profiles' = IF status = "ok"
                  THEN [profiles EXCEPT ![f] = [user |-> "-", courses |-> list,
                                                rev |-> 0]]
                  ELSE profiles
  /\ res' = Resp("createFaculty", status, "-", f, "-")
  /\ UNCHANGED <<courses, students, authVars>>

(* routes/faculty: PUT /:id ; req.user.id is a User id and faculty.id a
   Faculty id.  The body carries one plain field (v) and the courses list *)

updateFacultyStatus(u, f) ==
  IF f \notin faculty THEN "NotFound"
  ELSE IF Role(u) # "admin" /\ u # f THEN "Forbidden"
  ELSE "ok"

UpdateFaculty(u, f, v, list) ==
  LET status == updateFacultyStatus(u, f) IN
  /\ profiles' = IF status = "ok"
                  THEN [profiles EXCEPT ![f].rev = v, ![f].courses = list]
                  ELSE profiles
  /\ res' = Resp("updateFaculty", status, "-", f, "-")
  /\ UNCHANGED <<courses, students, faculty, authVars>>

(* routes/students: GET / ; the answer holds every Student document *)

listStudentsStatus(u) == "ok"

ListStudents(u) ==
  /\ res' = [Resp("listStudents", listStudentsStatus(u), "-", "*", u)
               EXCEPT !.n = Cardinality(students)]
  /\ UNCHANGED <<storeVars, authVars>>

(* routes/students: GET /:id and GET /:id/courses *)

getStudentStatus(u, s) ==
  IF s \notin students THEN "NotFound"
  ELSE IF /\ Role(u) # "admin"
          /\ Role(u) # "faculty"
          /\ u # profiles[s].user THEN "Forbidden"
  ELSE "ok"

GetStudent(u, s) ==
  /\ res' = Resp("getStudent", getStudentStatus(u, s), "-", s, u)
  /\ UNCHANGED <<storeVars, authVars>>

\* the courses matched by the filter { 'enrolledStudents.student': s }
coursesOfStudent(s) ==
  {c \in DOMAIN courses : hasEntry(courses[c].enrolledStudents, s)}

GetStudentCourses(u, s) ==
  LET status == getStudentStatus(u, s) IN
  /\ res' = [Resp("getStudentCourses", status, "-", s, u)
               EXCEPT !.n = IF status = "ok"
                            THEN Cardinality(coursesOfStudent(s)) ELSE 0]
  /\ UNCHANGED <<storeVars, authVars>>

(* Every route under the access-control checks.  Student s1 (owned by u1)
   and faculty member f1 exist; s2 and f2 are created by POST; course c1
   exists and c2 is created by POST. *)

InitPolicy ==
  /\ courses \in [{"c1"} -> [capacity : 1..MaxCapacity,
                            faculty : {<<>>},
                            enrolledStudents : {<<>>}]]
  /\ students = {"s1"}
  /\ faculty = {"f1"}
  /\ res = NoRes
  /\ users = NoUsers
  /\ now = 0
  /\ streak = NoStreak
  /\ profiles = [p \in ProfileIds |->
                   IF p \in {"s1", "f1"} THEN SeededProfiles[p] ELSE NoProfile]
  /\ pc = Idle

NextPolicy ==
  \/ \E u \in UserIds : CreateStudent(u, "s2") /\ UNCHANGED pc
  \/ \E u \in UserIds : UpdateStudent(u, "s1", 1) /\ UNCHANGED pc
  \/ \E u \in UserIds : DeleteStudent(u, "s1") /\ UNCHANGED pc
  \/ \E u \in UserIds : ListStudents(u) /\ UNCHANGED pc
  \/ \E u \in UserIds, s \in StudentIds : GetStudent(u, s) /\ UNCHANGED pc
  \/ \E u \in UserIds, s \in StudentIds : GetStudentCourses(u, s) /\ UNCHANGED pc
  \/ \E u \in UserIds : CreateFaculty(u, "f2", <<>>) /\ UNCHANGED pc
  \/ \E u \in UserIds : UpdateFaculty(u, "f1", 1, <<>>) /\ UNCHANGED pc
  \/ \E u \in UserIds : DeleteFaculty(u, "f1") /\ UNCHANGED pc
  \/ \E u \in UserIds : CreateCourse(u, "c2", 1, <<>>) /\ UNCHANGED pc
  \/ \E u \in UserIds, list \in {<<>>, <<"f1">>} :
       UpdateCourse(u, "c1", list) /\ UNCHANGED pc
  \/ \E u \in UserIds, c \in CourseIds : DeleteCourse(u, c) /\ UNCHANGED pc
  \/ \E u \in UserIds \ {"u2"} : SelfEnroll(u, "c1") /\ UNCHANGED pc
  \/ \E u \in UserIds : StaffEnroll(u, "s1", "c1") /\ UNCHANGED pc
  \/ \E u \in UserIds : Unenroll(u, "s1", "c1") /\ UNCHANGED pc
  \/ \E u \in UserIds, g \in {"A+", "Z"} :
       AssignGrade(u, "c1", "s1", g) /\ UNCHANGED pc
  \/ \E u \in UserIds : AssignFaculty(u, "f1", "c1") /\ UNCHANGED pc
  \/ \E u \in UserIds : RemoveFaculty(u, "f1", "c1") /\ UNCHANGED pc

SpecPolicy == InitPolicy /\ [][NextPolicy]_vars

----------------------------------------------------------------------------
(* Claims about access control, checked under SpecPolicy *)

\* the read rule: admin, faculty, or the identity owning the record
mayRead(u, s) == Role(u) \in {"admin", "faculty"} \/ profiles[s].user = u

ReadOps == {"listStudents", "getStudent", "getStudentCourses"}

\* C15: every read of a Student record (the list, a single student, a
\* student's courses) that is answered hands each record only to an admin,
\* a faculty member or the identity owning it; a student-role caller never
\* receives another student's record.  res.arg is the caller of a read.
C15_StudentReads ==
  [][(res'.op \in ReadOps /\ res'.status = "ok")
     => \A s \in students :
          (res'.op = "listStudents" \/ res'.who = s) => mayRead(res'.arg, s)]_vars

\* C16: whenever an operation is denied by the access-control check, the
\* store (all courses, students, faculty and their profiles) is exactly as
\* it was before the call.
C16_DenyLeavesStore ==
  [][res'.status = "Forbidden" => UNCHANGED storeVars]_vars

\* a denied deleteStudent of an existing student who holds a roster entry
C16_Witness ==
  /\ res.op = "deleteStudent"
  /\ res.status = "Forbidden"
  /\ res.who \in students
  /\ \E c \in DOMAIN courses : hasEntry(courses[c].enrolledStudents, res.who)

----------------------------------------------------------------------------
(* Cascades and store failures.  facultySchema.courses is written by the
   methods assignCourse / removeCourse and by the body of PUT /faculty/:id.
   A store call that throws ends the handler in its catch block, which
   answers 500; the writes made before it stay. *)

(* models/Faculty: assignCourse(courseId) *)
assignCourse(f, c) ==
  /\ f \in faculty
  /\ profiles' = IF ~includes(profiles[f].courses, c)
                  THEN [profiles EXCEPT ![f].courses = Append(@, c)]
                  ELSE profiles
  /\ res' = Resp("assignCourse", "ok", c, f, "-")
  /\ UNCHANGED <<courses, students, faculty, authVars>>

(* models/Faculty: removeCourse(courseId) *)
removeCourse(f, c) ==
  /\ f \in faculty
  /\ profiles' = [profiles EXCEPT
                    ![f].courses = SelectSeq(@, LAMBDA d : d # c)]
  /\ res' = Resp("removeCourse", "ok", c, f, "-")
  /\ UNCHANGED <<courses, students, faculty, authVars>>

\* Course.updateMany(..., { $pull: { enrolledStudents: { student: s } } })
withoutStudent(s) ==
  [c \in DOMAIN courses |->
     [courses[c] EXCEPT !.enrolledStudents = pullStudent(@, s)]]

\* Course.updateMany({ faculty: f }, { $pull: { faculty: f } })
withoutFaculty(f) ==
  [c \in DOMAIN courses |-> [courses[c] EXCEPT !.faculty = pullFaculty(@, f)]]

\* the store calls of DELETE /:id, in program order
DeleteSteps == {"findById", "updateMany", "remove"}

(* routes/students: DELETE /:id when the store call `step` throws *)
DeleteStudentStoreFailure(u, s, step) ==
  /\ deleteStudentStatus(u, s) = "ok"
  /\ courses' = IF step = "remove" THEN withoutStudent(s) ELSE courses
  /\ res' = Resp("deleteStudent", "ServerError", "-", s, step)
  /\ UNCHANGED <<students, faculty, profiles, authVars>>

(* routes/faculty: DELETE /:id when the store call `step` throws *)
DeleteFacultyStoreFailure(u, f, step) ==
  /\ deleteFacultyStatus(u, f) = "ok"
  /\ courses' = IF step = "remove" THEN withoutFaculty(f) ELSE courses
  /\ res' = Resp("deleteFaculty", "ServerError", "-", f, step)
  /\ UNCHANGED <<students, faculty, profiles, authVars>>

(* routes/students: POST /:id/courses/:courseId when course.save() throws *)
StaffEnrollStoreFailure(u, s, c) ==
  /\ staffEnrollStatus(u, s, c) = "ok"
  /\ res' = Resp("staffEnroll", "ServerError", c, s, "save")
  /\ UNCHANGED <<storeVars, authVars>>

(* routes/faculty: POST /:id/courses/:courseId when course.save() throws *)
AssignFacultyStoreFailure(u, f, c) ==
  /\ assignFacultyStatus(u, f, c) = "ok"
  /\ res' = Resp("assignFaculty", "ServerError", c, f, "save")
  /\ UNCHANGED <<storeVars, authVars>>

CascadeCallers == {"ua", "u1"}

NextCascade ==
  \/ \E f \in FacultyIds : assignCourse(f, "c1") /\ UNCHANGED pc
  \/ \E f \in FacultyIds : removeCourse(f, "c1") /\ UNCHANGED pc
  \/ \E u \in CascadeCallers, f \in FacultyIds, list \in {<<>>, <<"c1">>} :
       UpdateFaculty(u, f, 0, list) /\ UNCHANGED pc
  \/ \E u \in CascadeCallers : DeleteCourse(u, "c1") /\ UNCHANGED pc
  \/ \E u \in CascadeCallers, s \in StudentIds :
       StaffEnroll(u, s, "c1") /\ UNCHANGED pc
  \/ \E u \in CascadeCallers, s \in StudentIds :
       StaffEnrollStoreFailure(u, s, "c1") /\ UNCHANGED pc
  \/ \E u \in CascadeCallers, s \in StudentIds :
       Unenroll(u, s, "c1") /\ UNCHANGED pc
  \/ \E u \in CascadeCallers, f \in FacultyIds :
       AssignFaculty(u, f, "c1") /\ UNCHANGED pc
  \/ \E u \in CascadeCallers, f \in FacultyIds :
       AssignFacultyStoreFailure(u, f, "c1") /\ UNCHANGED pc
  \/ \E u \in CascadeCallers, s \in StudentIds : DeleteStudent(u, s) /\ UNCHANGED pc
  \/ \E u \in CascadeCallers, s \in StudentIds, step \in DeleteSteps :
       DeleteStudentStoreFailure(u, s, step) /\ UNCHANGED pc
  \/ \E u \in CascadeCallers, f \in FacultyIds : DeleteFaculty(u, f) /\ UNCHANGED pc
  \/ \E u \in CascadeCallers, f \in FacultyIds, step \in DeleteSteps :
       DeleteFacultyStoreFailure(u, f, step) /\ UNCHANGED pc

SpecCascade == Init /\ [][NextCascade]_vars

\* C18: after a successful deleteCourse(c), no faculty member's course list
\* contains c.
C18_NoDanglingCourse ==
  (res.op = "deleteCourse" /\ res.status = "ok")
  => \A f \in FacultyIds : ~includes(profiles[f].courses, res.course)

\* C19: every operation that returns a failure, a domain error or a store
\* failure at any of its write steps, leaves the store exactly as before
\* the call; a deleteStudent or deleteFaculty whose profile removal fails
\* after the cascade has removed no roster entry and no faculty-list entry.
C19_FailureLeavesStore ==
  [][res'.status \notin {"ok", "none"} => UNCHANGED storeVars]_vars

----------------------------------------------------------------------------
(* Concurrent requests.  Each handler is an async function that yields at
   every await of a store call, so a staff enroll and a deleteStudent
   interleave at their store reads and writes.  pc holds the position of
   the two requests in flight.  course.save() after a push sends an atomic
   $push of the new entry, which the store applies to the roster it holds
   at that moment. *)

Waiting == [step |-> "idle", who |-> "-"]

InFlight(step, s) == [step |-> step, who |-> s]

InitRace ==
  /\ courses \in [{"c1"} -> [capacity : 1..MaxCapacity,
                            faculty : {<<>>},
                            enrolledStudents : {<<>>}]]
  /\ students = StudentIds
  /\ faculty = FacultyIds
  /\ res = NoRes
  /\ users = NoUsers
  /\ now = 0
  /\ streak = NoStreak
  /\ profiles = SeededProfiles
  /\ pc = [at |-> "race", enroll |-> Waiting, del |-> Waiting]

(* POST /students/:id/courses/:courseId by the admin: Student.findById *)
EnrollFindStudent(s) ==
  /\ pc.enroll = Waiting
  /\ IF s \in students
     THEN /\ pc' = [pc EXCEPT !.enroll = InFlight("gotStudent", s)]
          /\ UNCHANGED res
     ELSE /\ res' = Resp("staffEnroll", "NotFound", "c1", s, "-")
          /\ UNCHANGED pc
  /\ UNCHANGED <<storeVars, authVars>>

(* Course.findById and the duplicate check on the document it returned *)
EnrollFindCourse ==
  /\ pc.enroll.step = "gotStudent"
  /\ IF "c1" \notin DOMAIN courses
     THEN /\ res' = Resp("staffEnroll", "NotFound", "c1", pc.enroll.who, "-")
          /\ pc' = [pc EXCEPT !.enroll = Waiting]
     ELSE IF hasEntry(courses["c1"].enrolledStudents, pc.enroll.who)
     THEN /\ res' = Resp("staffEnroll", "AlreadyEnrolled", "c1", pc.enroll.who, "-")
          /\ pc' = [pc EXCEPT !.enroll = Waiting]
     ELSE /\ pc' = [pc EXCEPT !.enroll = InFlight("pushed", pc.enroll.who)]
          /\ UNCHANGED res
  /\ UNCHANGED <<storeVars, authVars>>

(* course.save() of the pushed entry *)
EnrollSave ==
  /\ pc.enroll.step = "pushed"
  /\ courses' = withRoster("c1", Append(courses["c1"].enrolledStudents,
                                        NewEntry(pc.enroll.who)))
  /\ res' = Resp("staffEnroll", "ok", "c1", pc.enroll.who, "-")
  /\ pc' = [pc EXCEPT !.enroll = Waiting]
  /\ UNCHANGED <<students, faculty, profiles, authVars>>

(* DELETE /students/:id by the admin: Student.findById *)
DeleteFindStudent(s) ==
  /\ pc.del = Waiting
  /\ IF s \in students
     THEN /\ pc' = [pc EXCEPT !.del = InFlight("gotStudent", s)]
          /\ UNCHANGED res
     ELSE /\ res' = Resp("deleteStudent", "NotFound", "-", s, "-")
          /\ UNCHANGED pc
  /\ UNCHANGED <<storeVars, authVars>>

(* Course.updateMany with $pull *)
DeleteUpdateMany ==
  /\ pc.del.step = "gotStudent"
  /\ courses' = withoutStudent(pc.del.who)
  /\ pc' = [pc EXCEPT !.del = InFlight("pulled", pc.del.who)]
  /\ UNCHANGED <<students, faculty, profiles, res, authVars>>

(* student.remove() *)
DeleteRemove ==
  /\ pc.del.step = "pulled"
  /\ students' = students \ {pc.del.who}
  /\ profiles' = [profiles EXCEPT ![pc.del.who] = NoProfile]
  /\ res' = Resp("deleteStudent", "ok", "-", pc.del.who, "-")
  /\ pc' = [pc EXCEPT !.del = Waiting]
  /\ UNCHANGED <<courses, faculty, authVars>>

NextRace ==
  \/ \E s \in StudentIds : EnrollFindStudent(s)
  \/ EnrollFindCourse
  \/ EnrollSave
  \/ \E s \in StudentIds : DeleteFindStudent(s)
  \/ DeleteUpdateMany
  \/ DeleteRemove

SpecRace == InitRace /\ [][NextRace]_vars

\* C20: deleteStudent removes the student's entries from every roster before
\* it removes the profile, so in every reachable state in which a Student
\* profile no longer exists no roster references that student, under every
\* interleaving of deleteStudent with a concurrent staff enroll of the same
\* student at the store reads and writes.
C20_NoRosterEntryOfDeleted ==
  \A s \in StudentIds \ students :
    \A c \in DOMAIN courses : ~hasEntry(courses[c].enrolledStudents, s)

----------------------------------------------------------------------------
(* Two concurrent DELETE /faculty/:id/courses/c1 requests by the admin.
   Each reads the course, splices its own copy of the faculty list and
   saves it.  splice marks the whole array modified, so save() sends
   $set: { faculty: <copy> } with the filter { __v: <version read> } and
   increments __v (no versionKey option is set on courseSchema); a save
   whose version is stale throws VersionError and the catch block answers
   500.  pc.start is the faculty list before the two calls, pc.v is __v of
   course c1, pc.req[r] is the position of request r. *)

RaceFacultyIds == FacultyIds \cup {"f3"}

\* the faculty arrays the body that created course c1 can carry
RaceFacultyLists == UNION {[1..n -> RaceFacultyIds] : n \in 0..(MaxFacultyList + 1)}

Requests == {1, 2}

NotStarted == [step |-> "idle", who |-> "-", list |-> <<>>, v |-> 0, status |-> "-"]

Finished(f, status) ==
  [step |-> "done", who |-> f, list |-> <<>>, v |-> 0, status |-> status]

InitRemoveRace ==
  /\ \E list \in RaceFacultyLists :
       /\ courses = [c \in {"c1"} |-> [capacity |-> 1, faculty |-> list,
                                       enrolledStudents |-> <<>>]]
       /\ pc = [at |-> "removeRace", start |-> list, v |-> 0,
                req |-> [r \in Requests |-> NotStarted]]
  /\ students = StudentIds
  /\ faculty = RaceFacultyIds
  /\ res = NoRes
  /\ users = NoUsers
  /\ now = 0
  /\ streak = NoStreak
  /\ profiles = SeededProfiles

\* the filter { _id, __v } of the update sent by save() matches
saveApplies(docVersion, storedVersion) == docVersion = storedVersion

(* Faculty.findById, Course.findById and the indexOf check on the copy read *)
RemoveRead(r, f) ==
  LET status == removeFacultyStatus("ua", f, "c1") IN
  /\ pc.req[r].step = "idle"
  /\ IF status = "ok"
     THEN /\ pc' = [pc EXCEPT !.req[r] =
                      [step |-> "read", who |-> f, list |-> courses["c1"].faculty,
                       v |-> pc.v, status |-> "-"]]
          /\ UNCHANGED res
     ELSE /\ pc' = [pc EXCEPT !.req[r] = Finished(f, status)]
          /\ res' = Resp("removeFaculty", status, "c1", f, "-")
  /\ UNCHANGED <<storeVars, authVars>>

(* course.faculty.splice(index, 1); await course.save() *)
RemoveSave(r) ==
  LET req == pc.req[r]
      status == IF saveApplies(req.v, pc.v) THEN "ok" ELSE "ServerError" IN
  /\ req.step = "read"
  /\ courses' = IF status = "ok"
                THEN withFaculty("c1", splice(req.list, indexOf(req.list, req.who)))
                ELSE courses
  /\ pc' = [pc EXCEPT !.req[r] = Finished(req.who, status),
                      !.v = IF status = "ok" THEN @ + 1 ELSE @]
  /\ res' = Resp("removeFaculty", status, "c1", req.who, "-")
  /\ UNCHANGED <<students, faculty, profiles, authVars>>

NextRemoveRace ==
  \/ \E r \in Requests, f \in RaceFacultyIds : RemoveRead(r, f)
  \/ \E r \in Requests : RemoveSave(r)

SpecRemoveRace == InitRemoveRace /\ [][NextRemoveRace]_vars

\* C21: when two removeFaculty calls for two different faculty members of
\* the same course run concurrently, interleaved at the read and the save of
\* the course, and both report success, the final faculty list contains
\* neither of them and every other member of the initial list in order.
C21_ConcurrentRemoval ==
  LET a == pc.req[1]
      b == pc.req[2] IN
  (a.step = "done" /\ b.step = "done" /\ a.status = "ok" /\ b.status = "ok"
     /\ a.who # b.who)
  => courses["c1"].faculty = SelectSeq(pc.start, LAMBDA x : x \notin {a.who, b.who})

----------------------------------------------------------------------------
(* Concurrent wrong-password logins on the account u1.  findByCredentials
   reads the document with findOne, tests the lock on that copy and awaits
   comparePassword; incrementLoginAttempts then decides from the copy which
   update to send, and the store applies $inc / $set / $unset to the
   document it holds at that moment.  pc.req[r] is the copy request r has
   read. *)

NoCopy == [step |-> "idle", user |-> NewUser]

InitLoginRace ==
  /\ courses = NoCourses
  /\ students = StudentIds
  /\ faculty = FacultyIds
  /\ res = NoRes
  /\ users = NoUsers
  /\ now = 0
  /\ streak = NoStreak
  /\ profiles = SeededProfiles
  /\ pc = [at |-> "loginRace", req |-> [r \in Requests |-> NoCopy]]

\* the stored document after the updateOne that incrementLoginAttempts
\* builds from the copy `this`
updateOne(this, stored) ==
  IF lockExpired(this)
  THEN [loginAttempts |-> 1, lockUntil |-> {}]
  ELSE [loginAttempts |-> stored.loginAttempts + 1,
        lockUntil |-> IF lockDue(this) THEN {now + LockDuration}
                      ELSE stored.lockUntil]

(* findOne({ username }) and the lock test on the copy *)
LoginRead(r, name) ==
  /\ pc.req[r].step = "idle"
  /\ IF isLocked(users[name])
     THEN /\ res' = [Resp("authenticate", "AccountLocked", "-", name, "wrong")
                       EXCEPT !.n = users[name].loginAttempts]
          /\ UNCHANGED pc
     ELSE /\ pc' = [pc EXCEPT !.req[r] = [step |-> "read", user |-> users[name]]]
          /\ UNCHANGED res
  /\ UNCHANGED <<storeVars, authVars>>

(* comparePassword fails; user.incrementLoginAttempts() *)
LoginIncrement(r, name) ==
  /\ pc.req[r].step = "read"
  /\ users[name].loginAttempts < MaxAttemptsSeen
  /\ users' = [users EXCEPT ![name] = updateOne(pc.req[r].user, @)]
  /\ res' = [Resp("authenticate", "InvalidCredentials", "-", name, "wrong")
               EXCEPT !.n = pc.req[r].user.loginAttempts]
  /\ pc' = [pc EXCEPT !.req[r] = NoCopy]
  /\ UNCHANGED <<storeVars, now, streak>>

NextLoginRace ==
  \/ \E r \in Requests : LoginRead(r, "u1")
  \/ \E r \in Requests : LoginIncrement(r, "u1")
  \/ Tick /\ UNCHANGED pc

SpecLoginRace == InitLoginRace /\ [][NextLoginRace]_vars

\* C22: in every reachable state an account whose failed-login counter is 5
\* or more has lockUntil set, under every interleaving of concurrent
\* wrong-password authenticate calls on the account, each reading the
\* account and then applying its update as a separate store step.
C22_CounterImpliesLock ==
  \A name \in Usernames :
    users[name].loginAttempts >= MaxLoginAttempts => users[name].lockUntil # {}

====
